---- MODULE Spec2Model ----
(***************************************************************************)
(* Model of MessageStore (src/src/network/message_tracker.rs), the         *)
(* VecDeque + HashMap implementation of the MessageTracker trait.          *)
(*                                                                         *)
(* Positions stored in `index` are 0-based as in the Rust code; the TLA+   *)
(* sequence `queue` is 1-based, so the message at Rust position p is       *)
(* queue[p + 1].                                                           *)
(***************************************************************************)
EXTENDS Integers, Sequences, FiniteSets, TLC

\* ---------------------------------------------------------------- bounds
NumIds == 3
MaxCap == 3

\* Message ids: n stands for the string "someID<n>".
Ids == 1..NumIds

\* The (peer_id, data) pairs messages are drawn from: the one the tests generate
\* and one from another peer with another payload.
Bodies == {<<"somePeerID0", <<0, 1, 1>>>>, <<"somePeerID1", <<>>>>}

\* ------------------------------------------------------------- Message
Message == {[id |-> i, peer_id |-> b[1], data |-> b[2]] : i \in Ids, b \in Bodies}

NoMessage == [id |-> 0, peer_id |-> "", data |-> <<>>]

\* Option<Message> / Vec<Message> / () / panic, as one record shape.
None == [tag |-> "None", val |-> NoMessage, vec |-> <<>>, why |-> ""]
Some(m) == [tag |-> "Some", val |-> m, vec |-> <<>>, why |-> ""]
Unit == [tag |-> "Unit", val |-> NoMessage, vec |-> <<>>, why |-> ""]
VecOf(s) == [tag |-> "Vec", val |-> NoMessage, vec |-> s, why |-> ""]
Panic(w) == [tag |-> "Panic", val |-> NoMessage, vec |-> <<>>, why |-> w]

\* ------------------------------------------------- HashMap<String, usize>
EmptyMap == [k \in {} |-> 0]

MapInsert(idx, k, v) == [x \in (DOMAIN idx) \cup {k} |-> IF x = k THEN v ELSE idx[x]]

MapRemove(idx, k) == [x \in (DOMAIN idx) \ {k} |-> idx[x]]

\* ---------------------------------------------------- VecDeque<Message>
\* VecDeque::remove(i): the queue without the element at 0-based position i.
RemoveAt(q, i) == SubSeq(q, 1, i) \o SubSeq(q, i + 2, Len(q))

\* VecDeque::swap_remove_back(i): the last element takes the place of the removed one.
SwapRemoveBack(q, i) ==
    IF i + 1 = Len(q) THEN SubSeq(q, 1, i)
    ELSE SubSeq(q, 1, i) \o <<q[Len(q)]>> \o SubSeq(q, i + 2, Len(q) - 1)

\* ----------------------------------------------------------- variables
\* The store (queue, index, fifo_size), whether a panic has unwound it, the last
\* call with its return value and the store as it was before that call, and the
\* history the properties speak about: `added` is the sequence of messages passed
\* to add while every add so far carried a fresh id and nothing was deleted
\* (distinctRun); `deleted` maps each id removed by delete and not added since
\* to the position it was removed from; `reinsertedFrom` is that position when
\* the last call was the add that brought such an id back, and -1 otherwise.
VARIABLES queue, index, fifo_size, panicked, call, ret, prev, added, distinctRun, deleted, reinsertedFrom

\* More history: `fullBefore` says that the queue held fifo_size messages at some
\* time before the last call; `before` is set by a delete that directly follows
\* an add of the same id, to that add's message and the store as it was before
\* that add.
VARIABLES fullBefore, before

\* `held` is the Vec a caller holds from an earlier get_all(). queue2, index2 and
\* ret2 are a second store of the same capacity and the value its last call
\* returned; only SpecPair drives it.
VARIABLES held, queue2, index2, ret2

hist == <<prev, added, distinctRun, deleted, reinsertedFrom, fullBefore, before>>

aux == <<held, queue2, index2, ret2>>

vars == <<queue, index, fifo_size, panicked, call, ret, prev, added, distinctRun, deleted, reinsertedFrom,
          fullBefore, before, held, queue2, index2, ret2>>

\* ------------------------------------------------------- MessageStore
\* update_indices: the loop body applied to 0-based positions p, p+1, ...
RECURSIVE UpdateLoop(_, _, _)
UpdateLoop(q, idx, p) ==
    IF p >= Len(q) THEN idx
    ELSE UpdateLoop(q, MapInsert(idx, q[p + 1].id, p), p + 1)

\* Variant: the enumerate() counter is stored without adding `skip` back.
RECURSIVE UnshiftedLoop(_, _, _, _)
UnshiftedLoop(q, idx, skip, n) ==
    IF skip + n >= Len(q) THEN idx
    ELSE UnshiftedLoop(q, MapInsert(idx, q[skip + n + 1].id, n), skip, n + 1)

update_indices_unshifted(q, idx, skip) == UnshiftedLoop(q, idx, skip, 0)

\* Variant: the repair starts one position too late, skip(skip + 1).
update_indices_from_next(q, idx, skip) == UpdateLoop(q, idx, skip + 1)

update_indices(q, idx, skip) == UpdateLoop(q, idx, skip)

\* get: index lookup, queue[queue_index] (panics out of bounds), id check.
get(q, idx, id) ==
    IF id \notin DOMAIN idx THEN None
    ELSE IF idx[id] >= Len(q) THEN Panic("index out of bounds")
    ELSE IF q[idx[id] + 1].id # id THEN Panic("Bad cache value")
    ELSE Some(q[idx[id] + 1])

exists(q, idx, id) == get(q, idx, id).tag = "Some"

get_all(q) == VecOf(q)

\* What get_all hands to the caller: `shared` says whether the value still reads
\* the store's queue. self.queue.clone().into() is an owned copy; the variant
\* hands out the queue itself.
NoVec == [taken |-> FALSE, shared |-> FALSE, vec |-> <<>>]

get_all_shared(q) == [taken |-> TRUE, shared |-> TRUE, vec |-> q]

get_all_owned(q) == [taken |-> TRUE, shared |-> FALSE, vec |-> get_all(q).vec]

\* The outcome of an operation: the new queue and index and the value returned.
Outcome(q, idx, r) == [queue |-> q, index |-> idx, ret |-> r]

\* Variants of add, each one slip away from the code.
\* The oldest message is never removed.
add_keep_all(q, idx, cap, m) ==
    LET g == get(q, idx, m.id) IN
    IF g.tag = "Panic" THEN Outcome(q, idx, g)
    ELSE IF exists(q, idx, m.id) THEN Outcome(q, idx, Unit)
    ELSE Outcome(Append(q, m), MapInsert(idx, m.id, Len(q)), Unit)

\* No exists() check before the push.
add_unchecked(q, idx, cap, m) ==
    LET q1 == Append(q, m) IN
    IF Len(q1) > cap
    THEN LET q2 == Tail(q1)
             idx1 == MapRemove(idx, Head(q1).id)
         IN Outcome(q2, update_indices(q2, idx1, 0), Unit)
    ELSE Outcome(q1, MapInsert(idx, m.id, Len(q1) - 1), Unit)

\* The evicted id stays in the index.
add_stale_index(q, idx, cap, m) ==
    LET g == get(q, idx, m.id) IN
    IF g.tag = "Panic" THEN Outcome(q, idx, g)
    ELSE IF exists(q, idx, m.id) THEN Outcome(q, idx, Unit)
    ELSE LET q1 == Append(q, m) IN
         IF Len(q1) > cap
         THEN Outcome(Tail(q1), update_indices(Tail(q1), idx, 0), Unit)
         ELSE Outcome(q1, MapInsert(idx, m.id, Len(q1) - 1), Unit)

\* pop_back instead of pop_front.
add_evict_back(q, idx, cap, m) ==
    LET g == get(q, idx, m.id) IN
    IF g.tag = "Panic" THEN Outcome(q, idx, g)
    ELSE IF exists(q, idx, m.id) THEN Outcome(q, idx, Unit)
    ELSE LET q1 == Append(q, m) IN
         IF Len(q1) > cap
         THEN LET q2 == SubSeq(q1, 1, Len(q1) - 1)
                  idx1 == MapRemove(idx, q1[Len(q1)].id)
              IN Outcome(q2, update_indices(q2, idx1, 0), Unit)
         ELSE Outcome(q1, MapInsert(idx, m.id, Len(q1) - 1), Unit)

\* A duplicate overwrites the stored message.
add_replace_duplicate(q, idx, cap, m) ==
    LET g == get(q, idx, m.id) IN
    IF g.tag = "Panic" THEN Outcome(q, idx, g)
    ELSE IF exists(q, idx, m.id)
    THEN Outcome([q EXCEPT ![idx[m.id] + 1] = m], idx, Unit)
    ELSE LET q1 == Append(q, m) IN
         IF Len(q1) > cap
         THEN LET q2 == Tail(q1)
                  idx1 == MapRemove(idx, Head(q1).id)
              IN Outcome(q2, update_indices(q2, idx1, 0), Unit)
         ELSE Outcome(q1, MapInsert(idx, m.id, Len(q1) - 1), Unit)

\* `>=` instead of `>` in the overflow test.
add_evict_at_capacity(q, idx, cap, m) ==
    LET g == get(q, idx, m.id) IN
    IF g.tag = "Panic" THEN Outcome(q, idx, g)
    ELSE IF exists(q, idx, m.id) THEN Outcome(q, idx, Unit)
    ELSE LET q1 == Append(q, m) IN
         IF Len(q1) >= cap
         THEN LET q2 == Tail(q1)
                  idx1 == MapRemove(idx, Head(q1).id)
              IN Outcome(q2, update_indices(q2, idx1, 0), Unit)
         ELSE Outcome(q1, MapInsert(idx, m.id, Len(q1) - 1), Unit)

\* push_front instead of push_back.
add_push_front(q, idx, cap, m) ==
    LET g == get(q, idx, m.id) IN
    IF g.tag = "Panic" THEN Outcome(q, idx, g)
    ELSE IF exists(q, idx, m.id) THEN Outcome(q, idx, Unit)
    ELSE LET q1 == <<m>> \o q IN
         IF Len(q1) > cap
         THEN LET q2 == Tail(q1)
                  idx1 == MapRemove(idx, Head(q1).id)
              IN Outcome(q2, update_indices(q2, idx1, 0), Unit)
         ELSE Outcome(q1, update_indices(q1, idx, 0), Unit)

\* The eviction branch does not call update_indices.
add_no_reindex(q, idx, cap, m) ==
    LET g == get(q, idx, m.id) IN
    IF g.tag = "Panic" THEN Outcome(q, idx, g)
    ELSE IF exists(q, idx, m.id) THEN Outcome(q, idx, Unit)
    ELSE LET q1 == Append(q, m) IN
         IF Len(q1) > cap
         THEN Outcome(Tail(q1), MapRemove(idx, Head(q1).id), Unit)
         ELSE Outcome(q1, MapInsert(idx, m.id, Len(q1) - 1), Unit)

\* The eviction pops while the queue is not shorter than fifo_size.
add_evict_below(q, idx, cap, m) ==
    LET g == get(q, idx, m.id) IN
    IF g.tag = "Panic" THEN Outcome(q, idx, g)
    ELSE IF exists(q, idx, m.id) THEN Outcome(q, idx, Unit)
    ELSE LET q1 == Append(q, m) IN
         IF Len(q1) > cap
         THEN LET q2 == Tail(q1)
                  q3 == IF Len(q2) >= cap /\ q2 # <<>> THEN Tail(q2) ELSE q2
                  idx1 == MapRemove(idx, Head(q1).id)
                  idx2 == IF q3 # q2 THEN MapRemove(idx1, Head(q2).id) ELSE idx1
              IN Outcome(q3, update_indices(q3, idx2, 0), Unit)
         ELSE Outcome(q1, MapInsert(idx, m.id, Len(q1) - 1), Unit)

\* The new id is recorded at queue.len() instead of queue.len() - 1.
add_index_len(q, idx, cap, m) ==
    LET g == get(q, idx, m.id) IN
    IF g.tag = "Panic" THEN Outcome(q, idx, g)
    ELSE IF exists(q, idx, m.id) THEN Outcome(q, idx, Unit)
    ELSE LET q1 == Append(q, m) IN
         IF Len(q1) > cap
         THEN LET q2 == Tail(q1)
                  idx1 == MapRemove(idx, Head(q1).id)
              IN Outcome(q2, update_indices(q2, idx1, 0), Unit)
         ELSE Outcome(q1, MapInsert(idx, m.id, Len(q1)), Unit)

\* The insert of queue.len() - 1 also runs after an eviction; on an empty queue
\* the subtraction overflows usize.
add_always_insert(q, idx, cap, m) ==
    LET g == get(q, idx, m.id) IN
    IF g.tag = "Panic" THEN Outcome(q, idx, g)
    ELSE IF exists(q, idx, m.id) THEN Outcome(q, idx, Unit)
    ELSE LET q1 == Append(q, m) IN
         IF Len(q1) > cap
         THEN LET q2 == Tail(q1)
                  idx1 == MapRemove(idx, Head(q1).id)
                  idx2 == update_indices(q2, idx1, 0)
              IN IF Len(q2) = 0
                 THEN Outcome(q2, idx2, Panic("attempt to subtract with overflow"))
                 ELSE Outcome(q2, MapInsert(idx2, m.id, Len(q2) - 1), Unit)
         ELSE Outcome(q1, MapInsert(idx, m.id, Len(q1) - 1), Unit)

\* The duplicate test compares the whole message, not the id.
add_dedup_by_message(q, idx, cap, m) ==
    LET g == get(q, idx, m.id) IN
    IF g.tag = "Panic" THEN Outcome(q, idx, g)
    ELSE IF g = Some(m) THEN Outcome(q, idx, Unit)
    ELSE LET q1 == Append(q, m) IN
         IF Len(q1) > cap
         THEN LET q2 == Tail(q1)
                  idx1 == MapRemove(idx, Head(q1).id)
              IN Outcome(q2, update_indices(q2, idx1, 0), Unit)
         ELSE Outcome(q1, MapInsert(idx, m.id, Len(q1) - 1), Unit)

\* add, lines 48-71.
add(q, idx, cap, m) ==
    LET g == get(q, idx, m.id) IN
    IF g.tag = "Panic" THEN Outcome(q, idx, g)
    ELSE IF exists(q, idx, m.id) THEN Outcome(q, idx, Unit)
    ELSE LET q1 == Append(q, m) IN
         IF Len(q1) > cap
         THEN LET removed_message == Head(q1)
                  q2 == Tail(q1)
                  idx1 == MapRemove(idx, removed_message.id)
              IN Outcome(q2, update_indices(q2, idx1, 0), Unit)
         ELSE Outcome(q1, MapInsert(idx, m.id, Len(q1) - 1), Unit)

\* Variants of delete.
\* swap_remove_back instead of remove.
delete_swap_remove(q, idx, id) ==
    IF id \notin DOMAIN idx THEN Outcome(q, idx, None)
    ELSE LET queue_index == idx[id]
             idx1 == MapRemove(idx, id)
         IN IF queue_index >= Len(q)
            THEN Outcome(q, idx1, Panic("It should never happen"))
            ELSE LET q1 == SwapRemoveBack(q, queue_index)
                 IN Outcome(q1, update_indices(q1, idx1, queue_index), Some(q[queue_index + 1]))

\* The index entry is unwrapped instead of matched.
delete_unwrap(q, idx, id) ==
    IF id \notin DOMAIN idx THEN Outcome(q, idx, Panic("called Option::unwrap() on a None value"))
    ELSE LET queue_index == idx[id]
             idx1 == MapRemove(idx, id)
         IN IF queue_index >= Len(q)
            THEN Outcome(q, idx1, Panic("It should never happen"))
            ELSE LET q1 == RemoveAt(q, queue_index)
                 IN Outcome(q1, update_indices(q1, idx1, queue_index), Some(q[queue_index + 1]))

\* update_indices is not called after the removal.
delete_no_reindex(q, idx, id) ==
    IF id \notin DOMAIN idx THEN Outcome(q, idx, None)
    ELSE LET queue_index == idx[id]
             idx1 == MapRemove(idx, id)
         IN IF queue_index >= Len(q)
            THEN Outcome(q, idx1, Panic("It should never happen"))
            ELSE Outcome(RemoveAt(q, queue_index), idx1, Some(q[queue_index + 1]))

\* The id leaves the index but the message stays in the queue.
delete_index_only(q, idx, id) ==
    IF id \notin DOMAIN idx THEN Outcome(q, idx, None)
    ELSE LET queue_index == idx[id]
             idx1 == MapRemove(idx, id)
         IN IF queue_index >= Len(q)
            THEN Outcome(q, idx1, Panic("It should never happen"))
            ELSE Outcome(q, idx1, Some(q[queue_index + 1]))

\* delete, lines 73-88.
delete(q, idx, id) ==
    IF id \notin DOMAIN idx THEN Outcome(q, idx, None)
    ELSE LET queue_index == idx[id]
             idx1 == MapRemove(idx, id)
         IN IF queue_index >= Len(q)
            THEN Outcome(q, idx1, Panic("It should never happen"))
            ELSE LET q1 == RemoveAt(q, queue_index)
                 IN Outcome(q1, update_indices(q1, idx1, queue_index), Some(q[queue_index + 1]))

\* ---------------------------------------------------------- the machine
Snapshot == [queue |-> queue, index |-> index]

PanicOf(r) == IF r.tag = "Panic" THEN r.why ELSE "no"

NotArmed == [armed |-> FALSE, message |-> NoMessage, queue |-> <<>>, index |-> EmptyMap]

\* MessageStore::new(fifo_size)
Init ==
    /\ fifo_size \in 0..MaxCap
    /\ queue = <<>>
    /\ index = EmptyMap
    /\ panicked = "no"
    /\ call = [op |-> "new", id |-> 0, message |-> NoMessage]
    /\ ret = Unit
    /\ prev = [queue |-> <<>>, index |-> EmptyMap]
    /\ added = <<>>
    /\ distinctRun = TRUE
    /\ deleted = EmptyMap
    /\ reinsertedFrom = -1
    /\ fullBefore = FALSE
    /\ before = NotArmed
    /\ held = NoVec
    /\ queue2 = <<>>
    /\ index2 = EmptyMap
    /\ ret2 = Unit

Add ==
    /\ panicked = "no"
    /\ \E m \in Message :
        LET o == add(queue, index, fifo_size, m) IN
        /\ queue' = o.queue
        /\ index' = o.index
        /\ ret' = o.ret
        /\ panicked' = PanicOf(o.ret)
        /\ call' = [op |-> "add", id |-> m.id, message |-> m]
        /\ prev' = Snapshot
        /\ distinctRun' = (distinctRun /\ \A i \in 1..Len(added) : added[i].id # m.id)
        /\ added' = IF distinctRun' THEN Append(added, m) ELSE <<>>
        /\ reinsertedFrom' = IF m.id \in DOMAIN deleted THEN deleted[m.id] ELSE -1
        /\ deleted' = MapRemove(deleted, m.id)
    /\ fullBefore' = (fullBefore \/ Len(queue) = fifo_size)
    /\ before' = NotArmed
    /\ UNCHANGED <<fifo_size, aux>>

Delete ==
    /\ panicked = "no"
    /\ \E id \in Ids :
        LET o == delete(queue, index, id) IN
        /\ queue' = o.queue
        /\ index' = o.index
        /\ ret' = o.ret
        /\ panicked' = PanicOf(o.ret)
        /\ call' = [op |-> "delete", id |-> id, message |-> NoMessage]
        /\ prev' = Snapshot
        /\ deleted' = IF o.ret.tag = "Some" THEN MapInsert(deleted, id, index[id]) ELSE deleted
        /\ before' = IF call.op = "add" /\ call.id = id
                      THEN [armed |-> TRUE, message |-> call.message,
                            queue |-> prev.queue, index |-> prev.index]
                      ELSE NotArmed
    /\ fullBefore' = (fullBefore \/ Len(queue) = fifo_size)
    /\ distinctRun' = FALSE
    /\ added' = <<>>
    /\ reinsertedFrom' = -1
    /\ UNCHANGED <<fifo_size, aux>>

\* Variant of Get: the message is taken out of the store, as delete does.
Get_consuming ==
    /\ panicked = "no"
    /\ \E id \in Ids :
        LET o == delete(queue, index, id) IN
        /\ queue' = o.queue
        /\ index' = o.index
        /\ ret' = o.ret
        /\ panicked' = PanicOf(o.ret)
        /\ call' = [op |-> "get", id |-> id, message |-> NoMessage]
    /\ prev' = Snapshot
    /\ reinsertedFrom' = -1
    /\ fullBefore' = (fullBefore \/ Len(queue) = fifo_size)
    /\ before' = NotArmed
    /\ UNCHANGED <<fifo_size, added, distinctRun, deleted, aux>>

Get ==
    /\ panicked = "no"
    /\ \E id \in Ids :
        LET r == get(queue, index, id) IN
        /\ ret' = r
        /\ panicked' = PanicOf(r)
        /\ call' = [op |-> "get", id |-> id, message |-> NoMessage]
    /\ prev' = Snapshot
    /\ reinsertedFrom' = -1
    /\ fullBefore' = (fullBefore \/ Len(queue) = fifo_size)
    /\ before' = NotArmed
    /\ UNCHANGED <<queue, index, fifo_size, added, distinctRun, deleted, aux>>

GetAll ==
    /\ panicked = "no"
    /\ ret' = get_all(queue)
    /\ call' = [op |-> "get_all", id |-> 0, message |-> NoMessage]
    /\ prev' = Snapshot
    /\ reinsertedFrom' = -1
    /\ fullBefore' = (fullBefore \/ Len(queue) = fifo_size)
    /\ before' = NotArmed
    /\ UNCHANGED <<queue, index, fifo_size, panicked, added, distinctRun, deleted, aux>>

Next == Add \/ Delete \/ Get \/ GetAll

Spec == Init /\ [][Next]_vars

\* ------------------------------------------- a caller holding a get_all() Vec
\* The same operations, keeping the Vec the last get_all() returned. The
\* messages added here all come from the peer the tests use.
HeldMessage == {m \in Message : m.peer_id = "somePeerID0"}

AddHeld ==
    /\ panicked = "no"
    /\ \E m \in HeldMessage :
        LET o == add(queue, index, fifo_size, m) IN
        /\ queue' = o.queue
        /\ index' = o.index
        /\ ret' = o.ret
        /\ panicked' = PanicOf(o.ret)
        /\ call' = [op |-> "add", id |-> m.id, message |-> m]
    /\ UNCHANGED <<fifo_size, hist, held, queue2, index2, ret2>>

DeleteHeld ==
    /\ panicked = "no"
    /\ \E id \in Ids :
        LET o == delete(queue, index, id) IN
        /\ queue' = o.queue
        /\ index' = o.index
        /\ ret' = o.ret
        /\ panicked' = PanicOf(o.ret)
        /\ call' = [op |-> "delete", id |-> id, message |-> NoMessage]
    /\ UNCHANGED <<fifo_size, hist, held, queue2, index2, ret2>>

GetAllHeld ==
    /\ panicked = "no"
    /\ ret' = get_all(queue)
    /\ held' = get_all_owned(queue)
    /\ call' = [op |-> "get_all", id |-> 0, message |-> NoMessage]
    /\ UNCHANGED <<queue, index, fifo_size, panicked, hist, queue2, index2, ret2>>

NextHeld == AddHeld \/ DeleteHeld \/ GetAllHeld

SpecHeld == Init /\ [][NextHeld]_vars

\* What the caller reads through the Vec it holds.
Observed == IF held.shared THEN queue ELSE held.vec

\* ------------------------------------------------ two stores, the same calls
\* Both stores receive the same operations with the same ids; the messages
\* added may differ in peer_id and data.
MessageOf(id, b) == [id |-> id, peer_id |-> b[1], data |-> b[2]]

PanicOfPair(r1, r2) == IF r1.tag = "Panic" THEN r1.why ELSE PanicOf(r2)

AddPair ==
    /\ panicked = "no"
    /\ \E id \in Ids, b1, b2 \in Bodies :
        LET o1 == add(queue, index, fifo_size, MessageOf(id, b1))
            o2 == add(queue2, index2, fifo_size, MessageOf(id, b2))
        IN /\ queue' = o1.queue
           /\ index' = o1.index
           /\ ret' = o1.ret
           /\ queue2' = o2.queue
           /\ index2' = o2.index
           /\ ret2' = o2.ret
           /\ panicked' = PanicOfPair(o1.ret, o2.ret)
           /\ call' = [op |-> "add", id |-> id, message |-> MessageOf(id, b1)]
    /\ UNCHANGED <<fifo_size, hist, held>>

DeletePair ==
    /\ panicked = "no"
    /\ \E id \in Ids :
        LET o1 == delete(queue, index, id)
            o2 == delete(queue2, index2, id)
        IN /\ queue' = o1.queue
           /\ index' = o1.index
           /\ ret' = o1.ret
           /\ queue2' = o2.queue
           /\ index2' = o2.index
           /\ ret2' = o2.ret
           /\ panicked' = PanicOfPair(o1.ret, o2.ret)
           /\ call' = [op |-> "delete", id |-> id, message |-> NoMessage]
    /\ UNCHANGED <<fifo_size, hist, held>>

GetPair ==
    /\ panicked = "no"
    /\ \E id \in Ids :
        /\ ret' = get(queue, index, id)
        /\ ret2' = get(queue2, index2, id)
        /\ panicked' = PanicOfPair(ret', ret2')
        /\ call' = [op |-> "get", id |-> id, message |-> NoMessage]
    /\ UNCHANGED <<queue, index, queue2, index2, fifo_size, hist, held>>

GetAllPair ==
    /\ panicked = "no"
    /\ ret' = get_all(queue)
    /\ ret2' = get_all(queue2)
    /\ call' = [op |-> "get_all", id |-> 0, message |-> NoMessage]
    /\ UNCHANGED <<queue, index, queue2, index2, fifo_size, panicked, hist, held>>

NextPair == AddPair \/ DeletePair \/ GetPair \/ GetAllPair

SpecPair == Init /\ [][NextPair]_vars

\* ------------------------------------------------------------ properties
\* The ids of the messages of a queue, and whether an id is among them.
IdsOf(q) == {q[p].id : p \in 1..Len(q)}

Retained(q, id) == id \in IdsOf(q)

\* The 1-based place of a retained id in a queue.
PlaceOf(q, id) == CHOOSE p \in 1..Len(q) : q[p].id = id

Min(a, b) == IF a <= b THEN a ELSE b

\* The last k elements of a sequence.
LastK(s, k) == SubSeq(s, Len(s) - k + 1, Len(s))

\* C1. Capacity bound: with a capacity of at least 1, after every operation the
\* queue holds at most fifo_size messages.
C1_CapacityBound == fifo_size >= 1 => Len(queue) <= fifo_size

\* An add of a fresh id onto a full tracker has just completed.
C1_Witness ==
    /\ fifo_size >= 2
    /\ call.op = "add"
    /\ Len(prev.queue) = fifo_size
    /\ ~Retained(prev.queue, call.id)
    /\ Len(queue) = fifo_size

\* C2. Duplicate-free: after every operation no two places of the queue hold
\* messages with the same id.
C2_DuplicateFree ==
    \A p1, p2 \in 1..Len(queue) : queue[p1].id = queue[p2].id => p1 = p2

\* An add has just carried an id that was already retained, among other messages.
C2_Witness ==
    /\ call.op = "add"
    /\ Retained(prev.queue, call.id)
    /\ Len(queue) >= 2

\* C3. Index/position consistency: after every operation the index maps the id
\* of the message at each position to exactly that position, and no other id of
\* the index maps there.
C3_IndexConsistent ==
    \A p \in 1..Len(queue) :
        /\ queue[p].id \in DOMAIN index
        /\ index[queue[p].id] = p - 1
        /\ \A k \in DOMAIN index : index[k] = p - 1 => k = queue[p].id

\* A delete has just removed the middle one of three messages.
C3_Witness ==
    /\ call.op = "delete"
    /\ ret.tag = "Some"
    /\ Len(prev.queue) = 3
    /\ prev.queue[2].id = call.id
    /\ Len(queue) = 2

\* C4. Index size equality: after every operation the index has as many entries
\* as the queue has messages.
C4_IndexSize == Cardinality(DOMAIN index) = Len(queue)

\* An add has just evicted the front message, whose id has left the index.
C4_Witness ==
    /\ call.op = "add"
    /\ fifo_size >= 1
    /\ Len(prev.queue) = fifo_size
    /\ queue # prev.queue
    /\ prev.queue[1].id \notin DOMAIN index
    /\ prev.queue[1].id \in DOMAIN prev.index

\* C5. FIFO window: after n adds of pairwise-distinct ids to an empty tracker of
\* capacity c >= 1, without delete, get_all() is the last min(n, c) messages
\* added, in the order they were added.
C5_FifoWindow ==
    (distinctRun /\ fifo_size >= 1) =>
        get_all(queue).vec = LastK(added, Min(Len(added), fifo_size))

\* get_all() has just been called after more distinct adds than the capacity holds.
C5_Witness ==
    /\ distinctRun
    /\ fifo_size >= 2
    /\ Len(added) > fifo_size
    /\ call.op = "get_all"
    /\ ret.vec = LastK(added, fifo_size)

\* C6. Duplicate absorption: an add whose id was already retained leaves the
\* queue (length, order, stored contents) and the index as they were.
C6_DuplicateAbsorbed ==
    (call.op = "add" /\ Retained(prev.queue, call.id)) =>
        /\ queue = prev.queue
        /\ index = prev.index
        /\ ret = Unit

\* On a full tracker, an add has just carried the id of a message that is not at
\* the back, with another peer_id and payload than the stored message.
C6_Witness ==
    /\ call.op = "add"
    /\ fifo_size >= 2
    /\ Len(prev.queue) = fifo_size
    /\ Retained(prev.queue, call.id)
    /\ PlaceOf(prev.queue, call.id) < Len(prev.queue)
    /\ prev.queue[PlaceOf(prev.queue, call.id)].peer_id # call.message.peer_id
    /\ prev.queue[PlaceOf(prev.queue, call.id)].data # call.message.data

\* C7. Eviction on overflow: an add of an id not retained onto a full tracker
\* (capacity >= 1) leaves the previous queue without its first message followed
\* by the new one, and get of the old front id is absent; an add onto a tracker
\* that is not full keeps every message it held.
C7_EvictionOnOverflow ==
    (call.op = "add" /\ fifo_size >= 1) =>
        /\ (Len(prev.queue) = fifo_size /\ ~Retained(prev.queue, call.id)) =>
            /\ get_all(queue).vec = Tail(prev.queue) \o <<call.message>>
            /\ get(queue, index, prev.queue[1].id) = None
        /\ Len(prev.queue) < fifo_size =>
            /\ Len(queue) >= Len(prev.queue)
            /\ SubSeq(queue, 1, Len(prev.queue)) = prev.queue

\* An add of a fresh id has just overflowed a full tracker of two messages.
C7_Witness ==
    /\ call.op = "add"
    /\ fifo_size = 2
    /\ Len(prev.queue) = 2
    /\ ~Retained(prev.queue, call.id)
    /\ queue = <<prev.queue[2], call.message>>

\* C8. Delete consistency: delete of a retained id returns the stored message,
\* after which get of the id is absent and get_all() is the previous queue with
\* that one message removed, the others in their order.
C8_DeleteConsistent ==
    (call.op = "delete" /\ Retained(prev.queue, call.id)) =>
        LET p == PlaceOf(prev.queue, call.id) IN
        /\ ret = Some(prev.queue[p])
        /\ get(queue, index, call.id) = None
        /\ Len(get_all(queue).vec) = Len(prev.queue) - 1
        /\ \A j \in 1..Len(queue) :
            queue[j] = IF j < p THEN prev.queue[j] ELSE prev.queue[j + 1]

\* A delete has just removed the first of three messages.
C8_Witness ==
    /\ call.op = "delete"
    /\ Len(prev.queue) = 3
    /\ prev.queue[1].id = call.id
    /\ ret.tag = "Some"
    /\ queue = <<prev.queue[2], prev.queue[3]>>

\* C9. Not-found is a value: delete and get of an id that is not retained return
\* absent without a panic and leave the queue and the index as they were.
C9_NotFound ==
    (call.op \in {"delete", "get"} /\ ~Retained(prev.queue, call.id)) =>
        /\ ret = None
        /\ panicked = "no"
        /\ queue = prev.queue
        /\ index = prev.index

\* On a tracker that holds messages, a delete has just been asked for an id
\* that an earlier delete had removed.
C9_Witness ==
    /\ call.op = "delete"
    /\ ~Retained(prev.queue, call.id)
    /\ prev.queue # <<>>
    /\ call.id \in DOMAIN deleted

\* C10. Re-insertion after delete: the add that brings back an id removed by an
\* earlier delete puts the new message at the back of get_all(), whatever place
\* the id was removed from, and get of the id returns the message just added.
C10_ReinsertAtBack ==
    (call.op = "add" /\ reinsertedFrom >= 0) =>
        /\ Len(queue) >= 1
        /\ get_all(queue).vec[Len(queue)] = call.message
        /\ get(queue, index, call.id) = Some(call.message)

\* An id removed from the front has just come back, behind two other messages.
C10_Witness ==
    /\ call.op = "add"
    /\ reinsertedFrom = 0
    /\ Len(queue) = 3
    /\ queue[3].id = call.id

\* C11. Add then get: with a capacity of at least 1, right after add(m) the call
\* get(m.id) returns a present message with id m.id, and when m.id was not
\* retained before the add that message is m, with or without an eviction.
C11_AddThenGet ==
    (call.op = "add" /\ fifo_size >= 1) =>
        /\ get(queue, index, call.id).tag = "Some"
        /\ get(queue, index, call.id).val.id = call.id
        /\ ~Retained(prev.queue, call.id) => get(queue, index, call.id) = Some(call.message)

\* An add of a fresh id has just evicted the front of a full tracker that keeps
\* other messages.
C11_Witness ==
    /\ call.op = "add"
    /\ fifo_size >= 2
    /\ Len(prev.queue) = fifo_size
    /\ ~Retained(prev.queue, call.id)
    /\ index[call.id] = fifo_size - 1

\* C12. Reads do not mutate: a get or get_all step leaves the queue, the index
\* and the capacity as they were, and returns what the same call returns on the
\* store it leaves behind (so repeating the call repeats the result).
C12_ReadsDoNotMutate ==
    [][call'.op \in {"get", "get_all"} =>
        /\ queue' = queue
        /\ index' = index
        /\ fifo_size' = fifo_size
        /\ ret' = IF call'.op = "get" THEN get(queue', index', call'.id) ELSE get_all(queue')]_vars

\* get has just returned a retained message that is not alone in the queue.
C12_Witness ==
    /\ call.op = "get"
    /\ ret.tag = "Some"
    /\ Len(queue) >= 2
    /\ queue = prev.queue

\* C15. Fatal paths are unreachable: no operation has panicked, and in the
\* current store no get and no delete of any id would panic.
C15_NoPanic ==
    /\ panicked = "no"
    /\ ret.tag # "Panic"
    /\ \A id \in Ids :
        /\ get(queue, index, id).tag # "Panic"
        /\ delete(queue, index, id).ret.tag # "Panic"

\* get has just returned a message that stood behind one an earlier delete removed.
C15_Witness ==
    /\ call.op = "get"
    /\ ret.tag = "Some"
    /\ \E k \in DOMAIN deleted : deleted[k] <= index[call.id]

\* C16. Index repair after delete: when delete removes the message recorded at
\* position q, every other id recorded below q keeps its position, every id
\* recorded above q moves down by one, and the deleted id is no longer a key.
C16_IndexRepair ==
    (call.op = "delete" /\ call.id \in DOMAIN prev.index) =>
        LET q == prev.index[call.id] IN
        /\ call.id \notin DOMAIN index
        /\ DOMAIN index = (DOMAIN prev.index) \ {call.id}
        /\ \A k \in (DOMAIN prev.index) \ {call.id} :
            index[k] = IF prev.index[k] < q THEN prev.index[k] ELSE prev.index[k] - 1

\* A delete has just removed position 1 of an index of three, with an id below
\* and an id above it.
C16_Witness ==
    /\ call.op = "delete"
    /\ call.id \in DOMAIN prev.index
    /\ prev.index[call.id] = 1
    /\ \E k1, k2 \in DOMAIN prev.index : prev.index[k1] = 0 /\ prev.index[k2] = 2

\* C17 as stated. Full stays full: once the size has reached the capacity
\* (>= 1), every later add finds the size at capacity and leaves it there.
C17_FullStaysFull ==
    (call.op = "add" /\ fifo_size >= 1 /\ fullBefore) =>
        /\ Len(prev.queue) = fifo_size
        /\ Len(queue) = fifo_size

\* C17 as amended. An add applied while the size is at the capacity (>= 1)
\* leaves the size at the capacity.
C17_FullAddStaysFull ==
    (call.op = "add" /\ fifo_size >= 1 /\ Len(prev.queue) = fifo_size) =>
        Len(queue) = fifo_size

\* An add of a fresh id has just been applied to a full tracker of at least two
\* messages and has evicted its front.
C17_Witness ==
    /\ call.op = "add"
    /\ fifo_size >= 2
    /\ fullBefore
    /\ Len(prev.queue) = fifo_size
    /\ ~Retained(prev.queue, call.id)
    /\ Len(queue) = fifo_size
    /\ queue[1] = prev.queue[2]

\* C18. get agrees with get_all: for every id, get returns a present value
\* exactly when get_all() holds a message with that id, and the value is that
\* message.
C18_GetAgreesWithGetAll ==
    \A id \in Ids :
        LET g == get(queue, index, id)
            all == get_all(queue).vec
        IN /\ g.tag \in {"Some", "None"}
           /\ g.tag = "Some" <=> \E p \in 1..Len(all) : all[p].id = id
           /\ g.tag = "Some" => \E p \in 1..Len(all) : all[p] = g.val

\* get has just returned the second message of the queue while another id is
\* absent.
C18_Witness ==
    /\ call.op = "get"
    /\ Len(queue) >= 2
    /\ ret = Some(queue[2])
    /\ \E id \in Ids : ~Retained(queue, id)

\* C19. Add/delete round trip: add(m) of an id not retained onto a tracker that
\* is not full, directly followed by delete(m.id), returns m and restores the
\* queue and the index that existed before the add.
C19_AddDeleteRoundTrip ==
    (/\ call.op = "delete"
     /\ before.armed
     /\ Len(before.queue) < fifo_size
     /\ ~Retained(before.queue, call.id)) =>
        /\ ret = Some(before.message)
        /\ queue = before.queue
        /\ index = before.index

\* Such an add and delete have just run on a tracker that holds two messages.
C19_Witness ==
    /\ call.op = "delete"
    /\ before.armed
    /\ before.message.id = call.id
    /\ Len(before.queue) = 2
    /\ Len(before.queue) < fifo_size
    /\ ~Retained(before.queue, call.id)
    /\ Len(prev.queue) = 3

\* C20. Zero capacity: a tracker of capacity 0 never retains anything: queue and
\* index are empty after every operation, nothing panics, and get of the id
\* just added is absent.
C20_ZeroCapacity ==
    fifo_size = 0 =>
        /\ queue = <<>>
        /\ index = EmptyMap
        /\ panicked = "no"
        /\ call.op = "add" => (ret = Unit /\ get(queue, index, call.id) = None)

\* An add has just run on a tracker of capacity 0.
C20_Witness ==
    /\ fifo_size = 0
    /\ call.op = "add"
    /\ call.message \in Message
    /\ Len(queue) = 0

IdSeq(q) == [p \in 1..Len(q) |-> q[p].id]

\* C14. peer_id and payload play no role: two trackers of the same capacity
\* given the same operations with the same ids, whatever the peer_id and data of
\* the messages added, hold after every step the same sequence of ids and the
\* same index, and every call returned present, absent or a list of the same ids
\* in both.
C14_BodiesPlayNoRole ==
    /\ IdSeq(queue) = IdSeq(queue2)
    /\ index = index2
    /\ ret.tag = ret2.tag
    /\ ret.val.id = ret2.val.id
    /\ IdSeq(ret.vec) = IdSeq(ret2.vec)
    /\ \A id \in Ids : get(queue, index, id).tag = get(queue2, index2, id).tag

\* A delete has just returned messages of the same id but different peers from
\* the two trackers, whose remaining messages differ in peer_id at every position.
C14_Witness ==
    /\ call.op = "delete"
    /\ ret.tag = "Some"
    /\ ret2.tag = "Some"
    /\ ret.val.peer_id # ret2.val.peer_id
    /\ Len(queue) >= 1
    /\ \A p \in 1..Len(queue) : queue[p].peer_id # queue2[p].peer_id

====
